---- MODULE Spec2Model ----
(***************************************************************************)
(* linux-auto-win: the monitor watcher (auto-win.py) and the window        *)
(* placement tool (adjwin.py).                                             *)
(*                                                                         *)
(* The specifications of this module:                                      *)
(*   SpecClassify  is_mon_match / get_cur_state_name applied to bounded    *)
(*                 monitor lists and monitor maps;                         *)
(*   SpecMove      move_windows, one profile rule per step;                *)
(*   Spec          whole watcher runs (main) over changing displays;       *)
(*   SpecInt       Spec plus a KeyboardInterrupt at any step of a run.     *)
(***************************************************************************)
EXTENDS Integers, Sequences, FiniteSets, TLC

VARIABLES
    conf,        \* the parsed JSON configuration (get_conf)
    mons,        \* main: mons, the list get_conn_monitors returned
    cur_state,   \* main: cur_state
    cpc,         \* SpecClassify: position
    mlist,       \* SpecClassify: the configured list is_mon_match was given
    matched,     \* SpecClassify: what is_mon_match returned
    procs,       \* move_windows: procs, the pool of unmatched windows
    prof,        \* move_windows: prof, the profile's rules in order
    ruleIdx,     \* move_windows: index of the rule the outer loop is at
    placed,      \* move_windows: the set_window calls made, in order
    procs0,      \* SpecMove: the inventory get_proc_info returned
    mpc,         \* SpecMove: position
    outputs,     \* /sys/class/drm: the connectors, in os.listdir order
    wm,          \* the window manager's windows, in wmctrl -l order
    stateFile,   \* the state file: NoFile or its content
    pc,          \* the watcher process: position in main
    monitors_only, \* args.monitors_only of the run
    state,       \* main: state, what get_state returned
    raw_state,   \* main: what get_cur_state_name returned
    exitCode,    \* exit status of the watcher process
    endKind,     \* how the run ended: "return", "error", "interrupt"
    adjwinRuns,  \* invocations of ADJWIN by this run
    adjwinRc,    \* exit status of ADJWIN
    calls,       \* set_window calls made for this run
    writes,      \* completed writes of the state file by this run
    wmAtStart,   \* wm when the run started
    fileAtStart, \* stateFile when the run started
    lastOk,      \* the previous run went through the state-transition
                 \* control and returned, and nothing has changed since
    repeat       \* lastOk when the run started

cvars == <<cpc, mlist, matched>>
mvars == <<procs, prof, ruleIdx, placed, procs0, mpc>>
envvars == <<outputs, wm, stateFile>>
runvars == <<pc, monitors_only, state, raw_state, exitCode, endKind,
             adjwinRuns, adjwinRc, calls, writes>>
histvars == <<wmAtStart, fileAtStart, lastOk, repeat>>
wvars == <<envvars, runvars, histvars>>
vars == <<conf, mons, cur_state, cvars, mvars, wvars>>

\* ---------------------------------------------------------------- bounds
MaxMons == 3     \* monitors in a list given to the classifier
MaxList == 2     \* triples in one configured monitor set
MaxSets == 2     \* named monitor sets in _mon_map_ (besides "built in")
MaxWins == 2     \* open windows given to move_windows
MaxRules == 2    \* rules in the profile given to move_windows
MaxOutputs == 3  \* connectors under /sys/class/drm

\* ------------------------------------------------------------- constants
\* Python's None where a str is expected (get_state of an absent file, a
\* classifier miss)
None == "None"
\* Python's None where a Monitor is expected (get_mon_from_edid running off
\* the end of the text)
NoMonitor == [none |-> TRUE]
UNKNOWN_STATE == "unknown"
\* the state file does not exist
NoFile == "(no file)"
\* a value of the run that has not been computed yet
NotRun == "(not run)"
BUILT_IN == "built in"

\* ----------------------------------------------------------------- data
Triple(mf, mo, se) == [manufacturer |-> mf, model |-> mo, serial |-> se]

\* class Monitor
Monitor(mf, mo, se, bi) ==
    [manufacturer |-> mf, model |-> mo, serial |-> se, built_in |-> bi]

\* Monitor.as_dict: the built_in flag is not part of the comparison key
as_dict(m) == Triple(m.manufacturer, m.model, m.serial)

\* the "built in" entry of the monitor map, as configured
BuiltInEntry == [manufacturer |-> "BOE", model |-> "P1", map |-> "laptop"]

TripA  == Triple("ACME", "X1", "SNA")
TripB  == Triple("ACME", "X1", "SNB")
TripC  == Triple("DELL", "U2", "SNC")
TripBI == Triple("BOE", "P1", "")

MonA  == Monitor("ACME", "X1", "SNA", FALSE)
MonB  == Monitor("ACME", "X1", "SNB", FALSE)
MonC  == Monitor("DELL", "U2", "SNC", FALSE)
MonBI == Monitor("BOE", "P1", "", TRUE)

SeqsUpTo(S, n) == UNION {[1..k -> S] : k \in 0..n}

Range(s) == {s[i] : i \in 1..Len(s)}

\* ------------------------------------------------------------ classifier
\* is_mon_match(mons, mlist): the fast fail on the lengths, then every
\* monitor's dict must be `in` the configured list
is_mon_match(ms, ml) ==
    IF Len(ms) # Len(ml)
    THEN FALSE
    ELSE \A i \in 1..Len(ms) : \E j \in 1..Len(ml) : ml[j] = as_dict(ms[i])

\* [m for m in mons if not m.built_in]
RECURSIVE not_built_in(_)
not_built_in(ms) ==
    IF ms = <<>> THEN <<>>
    ELSE IF Head(ms).built_in THEN not_built_in(Tail(ms))
         ELSE <<Head(ms)>> \o not_built_in(Tail(ms))

\* the loop `for name, mlist in conf[MON_MAP].items()` from entry i on
RECURSIVE first_match(_, _, _)
first_match(ms, items, i) ==
    IF i > Len(items) THEN None
    ELSE IF items[i].name = BUILT_IN THEN first_match(ms, items, i + 1)
    ELSE IF is_mon_match(ms, items[i].val) THEN items[i].name
    ELSE first_match(ms, items, i + 1)

\* conf[MON_MAP]['built in']
built_in_of(cf) ==
    cf.mon_map[CHOOSE i \in 1..Len(cf.mon_map) :
                   cf.mon_map[i].name = BUILT_IN].val

\* get_cur_state_name, mutated: the built-in monitor is not filtered out
get_cur_state_name_nofilter(ms, cf) ==
    IF Len(ms) = 1 /\ ms[1].built_in
    THEN built_in_of(cf).map
    ELSE first_match(ms, cf.mon_map, 1)

\* get_cur_state_name(mons, conf)
get_cur_state_name(ms, cf) ==
    IF Len(ms) = 1 /\ ms[1].built_in
    THEN built_in_of(cf).map
    ELSE first_match(not_built_in(ms), cf.mon_map, 1)

\* ----------------------------------------------------------- move_windows
\* A str is a sequence of characters; `sub in s` is substring containment,
\* case-sensitive, and the empty string is in every string.
Contains(sub, s) ==
    \E i \in 1..(Len(s) + 1) :
        /\ i + Len(sub) - 1 <= Len(s)
        /\ \A k \in 1..Len(sub) : s[i + k - 1] = sub[k]

\* del procs[to_rem]
DelAt(s, k) == [i \in 1..(Len(s) - 1) |-> IF i < k THEN s[i] ELSE s[i + 1]]

\* set_window(wid, prof): the two wmctrl calls, -e 0,x,y,w,h and -t desk
set_window(wid, rule) ==
    [wid |-> wid,
     geom |-> <<rule.xoff, rule.yoff, rule.width, rule.height>>,
     desk |-> rule.desk]

\* the inner loop: index of the first window of the pool whose name
\* contains the rule's name (to_rem), 0 when there is none
RECURSIVE first_fit(_, _, _)
first_fit(pool, rule, i) ==
    IF i > Len(pool) THEN 0
    ELSE IF Contains(rule.name, pool[i].name) THEN i
    ELSE first_fit(pool, rule, i + 1)

\* one iteration of `for win in prof`, mutated: the matched window stays
\* in the pool
move_rule_keep(pool, rule) ==
    LET to_rem == first_fit(pool, rule, 1) IN
    IF to_rem = 0
    THEN [pool |-> pool, calls |-> <<>>]
    ELSE [pool |-> pool,
          calls |-> <<set_window(pool[to_rem].wid, rule)>>]

\* one iteration of `for win in prof`, mutated: `break` is missing, so the
\* last window that matches is the one removed
move_rule_last(pool, rule) ==
    LET hits == {i \in 1..Len(pool) : Contains(rule.name, pool[i].name)} IN
    IF hits = {}
    THEN [pool |-> pool, calls |-> <<>>]
    ELSE LET to_rem == CHOOSE i \in hits : \A j \in hits : j <= i IN
         [pool |-> DelAt(pool, to_rem),
          calls |-> <<set_window(pool[to_rem].wid, rule)>>]

\* one iteration of `for win in prof`: the pool afterwards and the
\* set_window call made, if any
move_rule(pool, rule) ==
    LET to_rem == first_fit(pool, rule, 1) IN
    IF to_rem = 0
    THEN [pool |-> pool, calls |-> <<>>]
    ELSE [pool |-> DelAt(pool, to_rem),
          calls |-> <<set_window(pool[to_rem].wid, rule)>>]

\* move_windows(procs, conf, args) from rule i on: the set_window calls
RECURSIVE move_windows(_, _, _)
move_windows(pool, rules, i) ==
    IF i > Len(rules) THEN <<>>
    ELSE LET r == move_rule(pool, rules[i]) IN
         r.calls \o move_windows(r.pool, rules, i + 1)

\* ------------------------------------------------------ SpecMove: inputs
Titles == {<<"F", "f">>, <<"f", "f">>, <<"f">>, <<"F">>}
RuleNames == {<<>>, <<"F">>, <<"f">>, <<"F", "f">>}

\* a rule of a profile; the i-th rule of a list targets its own geometry
Rule(n, i) ==
    [name |-> n, xoff |-> 10 * i, yoff |-> 0, width |-> 800, height |-> 600,
     desk |-> i]

\* ProcInfo: the fields move_windows reads (wid, name)
ProcInfo(w, n) == [wid |-> w, name |-> n]

Inventories ==
    {[i \in 1..Len(t) |-> ProcInfo(i, t[i])] : t \in SeqsUpTo(Titles, MaxWins)}

Profiles ==
    {[i \in 1..Len(t) |-> Rule(t[i], i)] : t \in SeqsUpTo(RuleNames, MaxRules)}

\* the watcher's variables while another machine of the module runs
WatcherIdle ==
    /\ outputs = <<>>
    /\ wm = <<>>
    /\ stateFile = NoFile
    /\ pc = "off"
    /\ monitors_only = FALSE
    /\ state = None
    /\ raw_state = NotRun
    /\ exitCode = -1
    /\ endKind = NotRun
    /\ adjwinRuns = 0
    /\ adjwinRc = 0
    /\ calls = <<>>
    /\ writes = 0
    /\ wmAtStart = <<>>
    /\ fileAtStart = NoFile
    /\ lastOk = FALSE
    /\ repeat = FALSE

MoveIdle ==
    /\ procs = <<>>
    /\ prof = <<>>
    /\ ruleIdx = 0
    /\ placed = <<>>
    /\ procs0 = <<>>
    /\ mpc = "idle"

MoveInit ==
    /\ conf = <<>>
    /\ mons = <<>>
    /\ cur_state = None
    /\ cpc = "idle"
    /\ mlist = <<>>
    /\ matched = FALSE
    /\ WatcherIdle
    /\ procs0 \in Inventories
    /\ procs = procs0
    /\ prof \in Profiles
    /\ ruleIdx = 1
    /\ placed = <<>>
    /\ mpc = "moving"

\* one iteration of `for win in prof`
MoveRule ==
    /\ mpc = "moving"
    /\ ruleIdx <= Len(prof)
    /\ LET r == move_rule(procs, prof[ruleIdx]) IN
         /\ procs' = r.pool
         /\ placed' = placed \o r.calls
    /\ ruleIdx' = ruleIdx + 1
    /\ UNCHANGED <<conf, mons, cur_state, cvars, prof, procs0, mpc, wvars>>

\* the loop over the profile is exhausted: move_windows returns
MoveReturn ==
    /\ mpc = "moving"
    /\ ruleIdx > Len(prof)
    /\ mpc' = "moved"
    /\ UNCHANGED <<conf, mons, cur_state, cvars, procs, prof, ruleIdx,
                   placed, procs0, wvars>>

MoveNext == MoveRule \/ MoveReturn

SpecMove == MoveInit /\ [][MoveNext]_vars

\* ------------------------------------------------- SpecClassify: inputs
SetNames == {"work", "home"}
ClassifyTriples == {TripA, TripB, TripBI}
ClassifyMonitors == {MonA, MonB, MonBI}

\* the named monitor sets of a map, in file order: distinct names (they are
\* keys of a JSON object), each with its list of triples
NamedSets ==
    UNION {
        {[i \in 1..Len(o) |-> [name |-> o[i], val |-> ls[i]]] :
            ls \in [1..Len(o) -> SeqsUpTo(ClassifyTriples, MaxList)]} :
        o \in {s \in SeqsUpTo(SetNames, MaxSets) :
                  \A i, j \in 1..Len(s) : s[i] = s[j] => i = j}}

\* conf[MON_MAP] as its items(): the named sets with the "built in" entry
\* before or after them
MonMaps ==
    UNION {
        {<<[name |-> BUILT_IN, val |-> BuiltInEntry]>> \o m,
         m \o <<[name |-> BUILT_IN, val |-> BuiltInEntry]>>} :
        m \in NamedSets}

ClassifyInit ==
    /\ \E m \in MonMaps : conf = [mon_map |-> m, profiles |-> <<>>]
    /\ mons \in SeqsUpTo(ClassifyMonitors, MaxMons)
    /\ cur_state = None
    /\ cpc = "input"
    /\ mlist = <<>>
    /\ matched = FALSE
    /\ MoveIdle
    /\ WatcherIdle

\* cur_state = get_cur_state_name(mons, conf)
Classify ==
    /\ cpc = "input"
    /\ cur_state' = get_cur_state_name(mons, conf)
    /\ cpc' = "classified"
    /\ UNCHANGED <<conf, mons, mlist, matched, mvars, wvars>>

\* is_mon_match(mons, mlist) for one configured list of the map, called as
\* get_cur_state_name calls it: on monitors that are not built in
Match ==
    /\ cpc = "input"
    /\ \A k \in 1..Len(mons) : ~mons[k].built_in
    /\ \E i \in 1..Len(conf.mon_map) :
         /\ conf.mon_map[i].name # BUILT_IN
         /\ mlist' = conf.mon_map[i].val
         /\ matched' = is_mon_match(mons, conf.mon_map[i].val)
    /\ cpc' = "matched"
    /\ UNCHANGED <<conf, mons, cur_state, mvars, wvars>>

ClassifyNext == Classify \/ Match

SpecClassify == ClassifyInit /\ [][ClassifyNext]_vars


\* ============================================================ the watcher
\* ------------------------------------------------------- the state store
\* get_state(path): None when there is no file, else its content. State
\* names are single-line text, which text-mode read and write leave as is.
get_state(file) == IF file = NoFile THEN None ELSE file

\* open(path, 'w'): the file exists and is empty until the write reaches it
truncated == ""

\* set_state, mutated: the file is opened for writing and nothing is written
set_state_empty(st) == truncated

\* set_state(state, path): the content of the file once the with block has
\* closed it
set_state(st) == st

\* --------------------------------------------------- the identity extractor
\* A line of edid-decode's output, by what get_mon_from_edid's tests make of
\* it: 'manufacturer:' in it, 'model:' in it, a match of serial_reg, or none
\* of them ("other": any other line, and the empty line after the last \n).
Line(k, v) == [kind |-> k, val |-> v]

\* get_mon_from_edid(edid_info, built_in) from line i on, with the fields
\* accumulated so far; None (NoMonitor) when the loop ends without a return
RECURSIVE scan_edid(_, _, _, _, _, _)
scan_edid(lines, i, mfctr, model, serial, bi) ==
    IF i > Len(lines) THEN NoMonitor
    ELSE IF lines[i].kind = "manufacturer"
         THEN scan_edid(lines, i + 1, lines[i].val, model, serial, bi)
    ELSE IF lines[i].kind = "model"
         THEN scan_edid(lines, i + 1, mfctr, lines[i].val, serial, bi)
    ELSE IF lines[i].kind = "serial"
         THEN scan_edid(lines, i + 1, mfctr, model, lines[i].val, bi)
    ELSE IF serial # ""
         THEN Monitor(mfctr, model, serial, FALSE)
    ELSE IF mfctr = bi.manufacturer /\ model = bi.model
         THEN Monitor(mfctr, model, serial, TRUE)
    ELSE scan_edid(lines, i + 1, mfctr, model, serial, bi)

get_mon_from_edid(edid_info, bi) == scan_edid(edid_info, 1, "", "", "", bi)

\* get_conn_monitors(args, conf): a directory without an edid file and a
\* connector whose EDID is empty (get_edid_info returns None) are skipped;
\* whatever get_mon_from_edid returns for the others is appended
RECURSIVE get_conn_monitors(_, _)
get_conn_monitors(outs, cf) ==
    IF outs = <<>> THEN <<>>
    ELSE IF Head(outs).kind # "edid"
         THEN get_conn_monitors(Tail(outs), cf)
    ELSE <<get_mon_from_edid(Head(outs).text, built_in_of(cf))>>
             \o get_conn_monitors(Tail(outs), cf)

\* ------------------------------------------------------- the watcher's inputs
Edid(mf, mo, se) ==
    [kind |-> "edid",
     text |-> <<Line("other", ""), Line("manufacturer", mf), Line("model", mo),
                Line("serial", se), Line("other", "")>>]

\* the laptop panel: no serial line
EdidBI ==
    [kind |-> "edid",
     text |-> <<Line("other", ""), Line("manufacturer", "BOE"),
                Line("model", "P1"), Line("other", "")>>]

\* an external monitor whose descriptor carries no serial line
EdidNoSerial ==
    [kind |-> "edid",
     text |-> <<Line("other", ""), Line("manufacturer", "ACME"),
                Line("model", "X1"), Line("other", "")>>]

\* a connector with nothing attached: "EDID of '...' was empty"
EdidEmpty == [kind |-> "empty", text |-> <<>>]

Connectors ==
    {Edid("ACME", "X1", "SNA"), Edid("ACME", "X1", "SNB"),
     Edid("DELL", "U2", "SNC"), EdidBI, EdidNoSerial, EdidEmpty}

WatcherMonMap ==
    << [name |-> BUILT_IN, val |-> BuiltInEntry],
       [name |-> "work", val |-> <<TripA, TripB>>],
       [name |-> "home", val |-> <<TripC>>] >>

WorkProfile == << Rule(<<"F">>, 1), Rule(<<"f">>, 2) >>
HomeProfile == << Rule(<<"f">>, 3), Rule(<<"f">>, 4) >>
LaptopProfile == << Rule(<<>>, 5) >>

\* the configuration file: every state has a layout profile / "home" has
\* none / a monitor set is itself named "unknown"
WatcherConfs ==
    { [mon_map |-> WatcherMonMap,
       profiles |-> [n \in {"work", "home", "laptop"} |->
                        IF n = "work" THEN WorkProfile
                        ELSE IF n = "home" THEN HomeProfile ELSE LaptopProfile]],
      [mon_map |-> WatcherMonMap,
       profiles |-> [n \in {"work", "laptop"} |->
                        IF n = "work" THEN WorkProfile ELSE LaptopProfile]],
      [mon_map |-> << [name |-> "unknown", val |-> <<TripC>>],
                      [name |-> BUILT_IN, val |-> BuiltInEntry],
                      [name |-> "work", val |-> <<TripA, TripB>>] >>,
       profiles |-> [n \in {"work", "laptop", "unknown"} |->
                        IF n = "work" THEN WorkProfile ELSE LaptopProfile]] }

\* a window of the window manager
Window(w, n) == [wid |-> w, name |-> n, geom |-> <<0, 0, 0, 0>>, desk |-> 0]

OpenWindows == << Window(1, <<"F", "f">>), Window(2, <<"f">>) >>

\* ------------------------------------------------------------- adjwin.py
\* get_proc_info(): one ProcInfo per line of wmctrl -l -G -p
get_proc_info(w) == [i \in 1..Len(w) |-> ProcInfo(w[i].wid, w[i].name)]

\* the effect of the first n wmctrl commands of a sequence of set_window
\* calls (two commands each: -e geometry, then -t desktop) on the windows
wmctrl(w, cs, n) ==
    [i \in 1..Len(w) |->
        LET mine == {k \in 1..Len(cs) : cs[k].wid = w[i].wid} IN
        [w[i] EXCEPT
            !.geom = IF \E k \in mine : 2 * k - 1 <= n
                     THEN cs[CHOOSE k \in mine : 2 * k - 1 <= n
                                /\ \A j \in mine : 2 * j - 1 <= n => j <= k].geom
                     ELSE @,
            !.desk = IF \E k \in mine : 2 * k <= n
                     THEN cs[CHOOSE k \in mine : 2 * k <= n
                                /\ \A j \in mine : 2 * j <= n => j <= k].desk
                     ELSE @]]

\* adjwin main: `if args.profile not in conf: raise RuntimeError`, the exit
\* status of the tool
adjwin_status(profile, cf) == IF profile \in DOMAIN cf.profiles THEN 0 ELSE 1

\* ------------------------------------------------------------ auto-win.py
\* sp.run(..., check=True), mutated: check is missing, no status raises
check_raises_never(rc) == FALSE

\* sp.run(..., check=True): CalledProcessError on a non-zero exit status
check_raises(rc) == rc # 0

\* adjust_windows, mutated: the tool is run for every state
moves_windows_always(cur) == TRUE

\* adjust_windows: `if cur_state != UNKNOWN_STATE`
moves_windows(cur) == cur # UNKNOWN_STATE

\* main: `if cur_state is None: cur_state = UNKNOWN_STATE`
or_unknown(raw) == IF raw = None THEN UNKNOWN_STATE ELSE raw

\* main, mutated: the unknown state is never taken as unchanged
state_unchanged_known(saved, cur) == saved = cur /\ cur # UNKNOWN_STATE

\* main: `if state == cur_state`
state_unchanged(saved, cur) == saved = cur

WatcherInit ==
    /\ conf \in WatcherConfs
    /\ mons = <<>>
    /\ cur_state = None
    /\ cpc = "idle"
    /\ mlist = <<>>
    /\ matched = FALSE
    /\ MoveIdle
    /\ outputs = <<>>
    /\ wm = OpenWindows
    /\ stateFile = NoFile
    /\ pc = "idle"
    /\ monitors_only = FALSE
    /\ state = None
    /\ raw_state = NotRun
    /\ exitCode = -1
    /\ endKind = NotRun
    /\ adjwinRuns = 0
    /\ adjwinRc = 0
    /\ calls = <<>>
    /\ writes = 0
    /\ wmAtStart = OpenWindows
    /\ fileAtStart = NoFile
    /\ lastOk = FALSE
    /\ repeat = FALSE

Between == pc \in {"idle", "done"}

\* Something changes between two runs: the process of the last run is gone
\* with its locals, and the next run is not a repetition of it.
Forget ==
    /\ pc' = "idle"
    /\ mons' = <<>>
    /\ cur_state' = None
    /\ monitors_only' = FALSE
    /\ state' = None
    /\ raw_state' = NotRun
    /\ exitCode' = -1
    /\ endKind' = NotRun
    /\ adjwinRuns' = 0
    /\ adjwinRc' = 0
    /\ calls' = <<>>
    /\ writes' = 0
    /\ wmAtStart' = OpenWindows
    /\ fileAtStart' = NoFile
    /\ lastOk' = FALSE
    /\ repeat' = FALSE

\* a display is plugged into a connector (hot-plug)
Plug ==
    /\ Between
    /\ Len(outputs) < MaxOutputs
    /\ \E c \in Connectors, i \in 0..Len(outputs) :
         outputs' = SubSeq(outputs, 1, i) \o <<c>>
                        \o SubSeq(outputs, i + 1, Len(outputs))
    /\ Forget
    /\ UNCHANGED <<conf, cvars, mvars, wm, stateFile>>

\* a connector goes away
Unplug ==
    /\ Between
    /\ \E i \in 1..Len(outputs) : outputs' = DelAt(outputs, i)
    /\ Forget
    /\ UNCHANGED <<conf, cvars, mvars, wm, stateFile>>

\* the user moves a window back to where it was opened
UserMovesWindow ==
    /\ Between
    /\ \E i \in 1..Len(wm) :
         /\ wm[i] # OpenWindows[i]
         /\ wm' = [wm EXCEPT ![i] = OpenWindows[i]]
    /\ Forget
    /\ UNCHANGED <<conf, cvars, mvars, outputs, stateFile>>

\* main: get_args, setup_logging, get_conf, state = get_state(...)
Start ==
    /\ Between
    /\ pc' = "scan"
    /\ monitors_only' \in BOOLEAN
    /\ state' = get_state(stateFile)
    /\ mons' = <<>>
    /\ cur_state' = None
    /\ raw_state' = NotRun
    /\ exitCode' = -1
    /\ endKind' = NotRun
    /\ adjwinRuns' = 0
    /\ adjwinRc' = 0
    /\ calls' = <<>>
    /\ writes' = 0
    /\ wmAtStart' = wm
    /\ fileAtStart' = stateFile
    /\ repeat' = lastOk
    /\ lastOk' = FALSE
    /\ UNCHANGED <<conf, cvars, mvars, envvars>>

\* main: mons = get_conn_monitors(args, conf), then --monitors-only prints
\* them and returns 0
Scan ==
    /\ pc = "scan"
    /\ mons' = get_conn_monitors(outputs, conf)
    /\ \/ /\ monitors_only
          /\ pc' = "done"
          /\ exitCode' = 0
          /\ endKind' = "return"
       \/ /\ ~monitors_only
          /\ pc' = "classify"
          /\ UNCHANGED <<exitCode, endKind>>
    /\ UNCHANGED <<conf, cur_state, cvars, mvars, envvars, monitors_only,
                   state, raw_state, adjwinRuns, adjwinRc, calls, writes,
                   histvars>>

\* get_cur_state_name reads m.built_in of an element that is None:
\* AttributeError, an uncaught exception, exit status 1
ClassifyRaises ==
    /\ pc = "classify"
    /\ \E i \in 1..Len(mons) : mons[i] = NoMonitor
    /\ pc' = "done"
    /\ exitCode' = 1
    /\ endKind' = "error"
    /\ UNCHANGED <<conf, mons, cur_state, cvars, mvars, envvars,
                   monitors_only, state, raw_state, adjwinRuns, adjwinRc,
                   calls, writes, histvars>>

\* main: cur_state = get_cur_state_name(mons, conf), None becomes "unknown",
\* and `if state == cur_state: return 0`
ClassifyRun ==
    /\ pc = "classify"
    /\ \A i \in 1..Len(mons) : mons[i] # NoMonitor
    /\ raw_state' = get_cur_state_name(mons, conf)
    /\ cur_state' = or_unknown(raw_state')
    /\ \/ /\ state_unchanged(state, cur_state')
          /\ pc' = "done"
          /\ exitCode' = 0
          /\ endKind' = "return"
          /\ lastOk' = TRUE
       \/ /\ ~state_unchanged(state, cur_state')
          /\ pc' = "adjust"
          /\ UNCHANGED <<exitCode, endKind, lastOk>>
    /\ UNCHANGED <<conf, mons, cvars, mvars, envvars, monitors_only, state,
                   adjwinRuns, adjwinRc, calls, writes, wmAtStart,
                   fileAtStart, repeat>>

\* adjust_windows: the unknown state moves no window
AdjustSkip ==
    /\ pc = "adjust"
    /\ ~moves_windows(cur_state)
    /\ pc' = "save"
    /\ UNCHANGED <<conf, mons, cur_state, cvars, mvars, envvars,
                   monitors_only, state, raw_state, exitCode, endKind,
                   adjwinRuns, adjwinRc, calls, writes, histvars>>

\* adjust_windows: sp.run([ADJWIN, cur_state], check=True), the whole of
\* adjwin's main: get_proc_info, the profile lookup, move_windows
AdjustRun ==
    /\ pc = "adjust"
    /\ moves_windows(cur_state)
    /\ adjwinRuns' = adjwinRuns + 1
    /\ adjwinRc' = adjwin_status(cur_state, conf)
    /\ IF adjwinRc' = 0
       THEN /\ calls' = move_windows(get_proc_info(wm),
                                     conf.profiles[cur_state], 1)
            /\ wm' = wmctrl(wm, calls', 2 * Len(calls'))
       ELSE UNCHANGED <<calls, wm>>
    /\ IF check_raises(adjwinRc')
       THEN /\ pc' = "done"
            /\ exitCode' = 1
            /\ endKind' = "error"
       ELSE /\ pc' = "save"
            /\ UNCHANGED <<exitCode, endKind>>
    /\ UNCHANGED <<conf, mons, cur_state, cvars, mvars, outputs, stateFile,
                   monitors_only, state, raw_state, writes, histvars>>

\* set_state: open(path, 'w')
SaveOpen ==
    /\ pc = "save"
    /\ stateFile' = truncated
    /\ pc' = "write"
    /\ UNCHANGED <<conf, mons, cur_state, cvars, mvars, outputs, wm,
                   monitors_only, state, raw_state, exitCode, endKind,
                   adjwinRuns, adjwinRc, calls, writes, histvars>>

\* set_state: fh.write(state), into the file object's buffer
SaveWrite ==
    /\ pc = "write"
    /\ pc' = "close"
    /\ UNCHANGED <<conf, mons, cur_state, cvars, mvars, envvars,
                   monitors_only, state, raw_state, exitCode, endKind,
                   adjwinRuns, adjwinRc, calls, writes, histvars>>

\* set_state: the with block closes the file, the buffer reaches it; then
\* adjust_windows and main return 0
SaveClose ==
    /\ pc = "close"
    /\ stateFile' = set_state(cur_state)
    /\ writes' = writes + 1
    /\ pc' = "done"
    /\ exitCode' = 0
    /\ endKind' = "return"
    /\ lastOk' = TRUE
    /\ UNCHANGED <<conf, mons, cur_state, cvars, mvars, outputs, wm,
                   monitors_only, state, raw_state, adjwinRuns, adjwinRc,
                   calls, wmAtStart, fileAtStart, repeat>>

\* KeyboardInterrupt where the run holds no open file: `except
\* KeyboardInterrupt: sys.exit(0)`
Interrupt ==
    /\ pc \in {"scan", "classify", "adjust", "save"}
    /\ pc' = "done"
    /\ exitCode' = 0
    /\ endKind' = "interrupt"
    /\ UNCHANGED <<conf, mons, cur_state, cvars, mvars, envvars,
                   monitors_only, state, raw_state, adjwinRuns, adjwinRc,
                   calls, writes, histvars>>

\* KeyboardInterrupt while sp.run waits for adjwin, which is interrupted
\* too: any number of its wmctrl commands have run
InterruptAdjwin ==
    /\ pc = "adjust"
    /\ moves_windows(cur_state)
    /\ adjwin_status(cur_state, conf) = 0
    /\ adjwinRuns' = adjwinRuns + 1
    /\ LET cs == move_windows(get_proc_info(wm), conf.profiles[cur_state], 1)
       IN \E n \in 0..(2 * Len(cs)) :
             /\ calls' = SubSeq(cs, 1, (n + 1) \div 2)
             /\ wm' = wmctrl(wm, cs, n)
    /\ pc' = "done"
    /\ exitCode' = 0
    /\ endKind' = "interrupt"
    /\ UNCHANGED <<conf, mons, cur_state, cvars, mvars, outputs, stateFile,
                   monitors_only, state, raw_state, adjwinRc, writes,
                   histvars>>

\* KeyboardInterrupt between open(path, 'w') and fh.write: the with block
\* closes the file it has truncated
InterruptOpened ==
    /\ pc = "write"
    /\ pc' = "done"
    /\ exitCode' = 0
    /\ endKind' = "interrupt"
    /\ UNCHANGED <<conf, mons, cur_state, cvars, mvars, envvars,
                   monitors_only, state, raw_state, adjwinRuns, adjwinRc,
                   calls, writes, histvars>>

\* KeyboardInterrupt after fh.write: the with block closes the file and the
\* buffer reaches it
InterruptWritten ==
    /\ pc = "close"
    /\ stateFile' = set_state(cur_state)
    /\ writes' = writes + 1
    /\ pc' = "done"
    /\ exitCode' = 0
    /\ endKind' = "interrupt"
    /\ UNCHANGED <<conf, mons, cur_state, cvars, mvars, outputs, wm,
                   monitors_only, state, raw_state, adjwinRuns, adjwinRc,
                   calls, histvars>>

Environment == Plug \/ Unplug \/ UserMovesWindow

Run ==
    \/ Start
    \/ Scan
    \/ ClassifyRaises
    \/ ClassifyRun
    \/ AdjustSkip
    \/ AdjustRun
    \/ SaveOpen
    \/ SaveWrite
    \/ SaveClose

Interrupted ==
    Interrupt \/ InterruptAdjwin \/ InterruptOpened \/ InterruptWritten

Next == Environment \/ Run

NextInt == Environment \/ Run \/ Interrupted

\* watcher runs that no signal interrupts
Spec == WatcherInit /\ [][Next]_vars

\* watcher runs, each of which a KeyboardInterrupt may end at any step
SpecInt == WatcherInit /\ [][NextInt]_vars

\* ======================================================================
\* The claims
\* ======================================================================

TripleSet(ms) == {as_dict(ms[i]) : i \in 1..Len(ms)}

\* C3 (as claimed): is_mon_match(mons, mlist) is true exactly when the two
\* lists have the same number of elements and the set of triples of mons
\* equals the set of triples of mlist.
C3_SetEquality ==
    cpc = "matched" =>
        (matched <=> (Len(mons) = Len(mlist) /\ TripleSet(mons) = Range(mlist)))

\* The monitor map and the monitors of the scenario of C4.
ScenarioConf ==
    [mon_map |-> << [name |-> BUILT_IN, val |-> BuiltInEntry],
                    [name |-> "work", val |-> <<TripA, TripB>>],
                    [name |-> "home", val |-> <<TripC>>] >>,
     profiles |-> <<>>]

ScenarioOrders ==
    {s \in [1..3 -> {MonA, MonB, MonBI}] : Range(s) = {MonA, MonB, MonBI}}

\* The named sets of a map the current monitors match, by position.
Accepting(ms, items) ==
    {i \in 1..Len(items) :
        items[i].name # BUILT_IN
        /\ is_mon_match(SelectSeq(ms, LAMBDA m : ~m.built_in), items[i].val)}

\* C4: the classifier returns the built-in entry's map name for the list
\* holding only the built-in monitor; otherwise it returns the name of the
\* first named set, in configuration order, that is_mon_match accepts for
\* the monitors that are not built in, or None when there is none. The
\* scenario work = [MonA, MonB], home = [MonC] gives "work" for MonA, MonB
\* and the built-in in any order.
C4_Classifier ==
    /\ \A s \in ScenarioOrders : get_cur_state_name(s, ScenarioConf) = "work"
    /\ cpc = "classified" =>
         IF Len(mons) = 1 /\ mons[1].built_in
         THEN \E i \in 1..Len(conf.mon_map) :
                 /\ conf.mon_map[i].name = BUILT_IN
                 /\ cur_state = conf.mon_map[i].val.map
         ELSE LET acc == Accepting(mons, conf.mon_map) IN
              IF acc = {}
              THEN cur_state = None
              ELSE \E i \in acc :
                      /\ \A j \in acc : i <= j
                      /\ cur_state = conf.mon_map[i].name

\* C4's case: the built-in is attached with two external monitors, the first
\* named set does not match them and the second one does.
C4_Witness ==
    /\ cpc = "classified"
    /\ Len(mons) = 3
    /\ \E i \in 1..3 : mons[i].built_in
    /\ Cardinality(Accepting(mons, conf.mon_map)) = 1
    /\ \E i, j \in 1..Len(conf.mon_map) :
         /\ i < j
         /\ conf.mon_map[i].name \in SetNames
         /\ conf.mon_map[j].name = cur_state

\* C5: no window is placed by more than one rule, no rule places more than
\* one window, a placed window is out of the pool of remaining candidates,
\* and at most min(N, M) windows are placed.
C5_NoDoubleAssignment ==
    mpc \in {"moving", "moved"} =>
        /\ \A i, j \in 1..Len(placed) :
               (placed[i].wid = placed[j].wid \/ placed[i].desk = placed[j].desk)
                   => i = j
        /\ \A i \in 1..Len(placed) : \A k \in 1..Len(procs) :
               procs[k].wid # placed[i].wid
        /\ Len(placed) <= Len(procs0)
        /\ Len(placed) <= Len(prof)
        /\ Len(procs) = Len(procs0) - Len(placed)

\* C5's case: two rules with the same name substring and two windows that
\* both contain it; each rule has placed its own window.
C5_Witness ==
    /\ mpc = "moved"
    /\ Len(prof) = 2
    /\ prof[1].name = prof[2].name
    /\ \A i \in 1..Len(procs0) : Contains(prof[1].name, procs0[i].name)
    /\ Len(placed) = 2

\* "Mozilla Firefox", "firefox - private", "Firefox" and "fire" as strings
MozillaFirefox ==
    <<"M", "o", "z", "i", "l", "l", "a", " ", "F", "i", "r", "e", "f", "o", "x">>
FirefoxPrivate ==
    <<"f", "i", "r", "e", "f", "o", "x", " ", "-", " ",
      "p", "r", "i", "v", "a", "t", "e">>
FirefoxRules ==
    << Rule(<<"F", "i", "r", "e", "f", "o", "x">>, 1),
       Rule(<<"f", "i", "r", "e">>, 2) >>

\* sub occurs in s as a run of consecutive, equal characters.
IsSubstring(sub, s) ==
    \E off \in 0..(Len(s) - Len(sub)) : SubSeq(s, off + 1, off + Len(sub)) = sub

\* One iteration of the rule loop is first fit: the first window of the pool,
\* in its current order, whose title contains the rule's name is placed and
\* removed; when there is none the pool and the calls are unchanged.
FirstFitStep ==
    (mpc = "moving" /\ ruleIdx' = ruleIdx + 1) =>
        LET rule == prof[ruleIdx]
            hits == {i \in 1..Len(procs) : IsSubstring(rule.name, procs[i].name)}
        IN  IF hits = {}
            THEN procs' = procs /\ placed' = placed
            ELSE \E k \in hits :
                    /\ \A j \in hits : k <= j
                    /\ placed' = Append(placed, set_window(procs[k].wid, rule))
                    /\ Len(procs') = Len(procs) - 1
                    /\ \A i \in 1..Len(procs') :
                          procs'[i] = IF i < k THEN procs[i] ELSE procs[i + 1]

\* C6: rules are processed in profile order and each claims the first
\* remaining window whose title contains its name (case-sensitive); a rule
\* with no such window is skipped. Rules ["Firefox", "fire"] over windows
\* ["Mozilla Firefox", "firefox - private"] claim the first and the second.
C6_FirstFit ==
    [][/\ move_windows(<<ProcInfo(1, MozillaFirefox),
                           ProcInfo(2, FirefoxPrivate)>>, FirefoxRules, 1)
             = <<set_window(1, FirefoxRules[1]), set_window(2, FirefoxRules[2])>>
        /\ FirstFitStep]_vars

\* C6's case: the first rule found no window and was skipped, the second
\* rule passed over the first window and claimed the second one.
C6_Witness ==
    /\ mpc = "moved"
    /\ Len(prof) = 2
    /\ Len(procs0) = 2
    /\ placed = <<set_window(2, prof[2])>>
    /\ procs = <<procs0[1]>>

\* C1: a run that repeats a run which went through the state-transition
\* control and returned, with the same configuration, monitors and windows,
\* finds the persisted state equal to the current state, never invokes the
\* placement tool, changes no window and does not write the state file.
C1_Idempotent ==
    (repeat /\ ~monitors_only) =>
        /\ pc \notin {"adjust", "save", "write", "close"}
        /\ adjwinRuns = 0
        /\ calls = <<>>
        /\ writes = 0
        /\ wm = wmAtStart
        /\ stateFile = fileAtStart
        /\ pc = "done" =>
              /\ state = cur_state
              /\ exitCode = 0
              /\ endKind = "return"

\* C1's case: the first run placed windows for a named state, the second
\* run has ended.
C1_Witness ==
    /\ repeat
    /\ ~monitors_only
    /\ pc = "done"
    /\ cur_state = "work"
    /\ wm # OpenWindows

\* C2: a run whose classifier returns None invokes no placement, leaves the
\* windows as they are, ends with "unknown" in the state file and exit
\* status 0; a second such run with nothing changed places nothing and
\* writes nothing.
C2_UnknownPersisted ==
    (~monitors_only /\ raw_state = None) =>
        /\ adjwinRuns = 0
        /\ calls = <<>>
        /\ wm = wmAtStart
        /\ pc = "done" =>
              /\ stateFile = UNKNOWN_STATE
              /\ exitCode = 0
              /\ endKind = "return"
              /\ writes = IF state = UNKNOWN_STATE THEN 0 ELSE 1
              /\ repeat => writes = 0

\* C2's case: the second run over an unmatched, non-empty monitor set has
\* ended.
C2_Witness ==
    /\ pc = "done"
    /\ ~monitors_only
    /\ raw_state = None
    /\ repeat
    /\ mons # <<>>
    /\ stateFile = UNKNOWN_STATE

\* A descriptor of the attached outputs for which the extractor returns None.
NoRecordAttached ==
    \E i \in 1..Len(outputs) :
        /\ outputs[i].kind = "edid"
        /\ get_mon_from_edid(outputs[i].text, built_in_of(conf)) = NoMonitor

\* C7 (as claimed): a descriptor the extractor gets no record from adds no
\* element to the monitor list, the classifier runs over the other monitors
\* and the run ends normally.
C7_AbsentNotError ==
    (pc = "done" /\ ~monitors_only /\ NoRecordAttached) =>
        /\ \A i \in 1..Len(mons) : mons[i] # NoMonitor
        /\ raw_state # NotRun
        /\ endKind = "return"
        /\ exitCode = 0

\* C8 (as claimed): an interrupted run exits with status 0 and leaves the
\* state file with its content from before the run or with the complete new
\* state name.
C8_InterruptClean ==
    (pc = "done" /\ endKind = "interrupt") =>
        /\ exitCode = 0
        /\ \/ stateFile = fileAtStart
           \/ raw_state # NotRun /\ stateFile = cur_state

\* The placement tool is invoked once for a named state, never for unknown.
PlacementRuns == IF cur_state = UNKNOWN_STATE THEN 0 ELSE 1

\* C9 (as claimed): every run that finds the persisted state different from
\* current_state ends with current_state in the state file, after exactly
\* one placement pass for a named state and none for unknown.
C9_AlwaysPersisted ==
    (pc = "done" /\ raw_state # NotRun /\ state # cur_state) =>
        /\ stateFile = cur_state
        /\ adjwinRuns = PlacementRuns

\* C9 (amended): a run that finds the persisted state different from
\* current_state invokes the placement tool first, once for a named state and
\* never for unknown; if the tool was not invoked or exited with status 0 the
\* run then writes current_state to the state file and returns; if the tool
\* exited with another status the run ends with an error and the state file
\* is as it was.
C9_PersistedUnlessToolFails ==
    (raw_state # NotRun /\ state # cur_state) =>
        /\ pc \in {"save", "write", "close"} =>
              /\ adjwinRuns = PlacementRuns
              /\ adjwinRc = 0
              /\ writes = 0
        /\ pc = "save" => stateFile = fileAtStart
        /\ pc = "done" =>
              /\ adjwinRuns = PlacementRuns
              /\ endKind = IF adjwinRc = 0 THEN "return" ELSE "error"
              /\ endKind = "return" =>
                    /\ stateFile = cur_state
                    /\ writes = 1
                    /\ exitCode = 0
              /\ endKind = "error" =>
                    /\ stateFile = fileAtStart
                    /\ writes = 0
                    /\ exitCode # 0

\* C9's case: the state file held another state, the windows were placed for
\* "work" and "work" was persisted.
C9_Witness ==
    /\ pc = "done"
    /\ raw_state = "work"
    /\ state \notin {None, "work"}
    /\ stateFile = "work"
    /\ adjwinRuns = 1
    /\ calls # <<>>

\* The state names of a configuration: the named monitor sets and the
\* built-in entry's map name.
StateNames(cf) ==
    {cf.mon_map[i].name : i \in {j \in 1..Len(cf.mon_map) :
                                     cf.mon_map[j].name # BUILT_IN}}
        \cup {built_in_of(cf).map}

====
